---- MODULE Spec2Model ----
(***************************************************************************)
(* Model of snapshot_queries/query.py: the Query record, its factory       *)
(* Query.create, and the report operations display, display_string,       *)
(* __str__ and _enhanced_sql.                                              *)
(*                                                                         *)
(* Text.  A Python str is modelled as a sequence of units.  A unit is one  *)
(* character; a word of source or SQL text that no operation of the module *)
(* splits (SELECT, jsonb, 12ms) is kept as one unit, and so is one         *)
(* terminal escape sequence written by the highlighter.  Whitespace is     *)
(* always modelled character by character, so strip(), rstrip() and the    *)
(* "\n\n" separator act exactly as in the code.                            *)
(***************************************************************************)
EXTENDS Integers, Sequences, FiniteSets, TLC

VARIABLES
    args,    \* the captured inputs handed to Query.create
    rec,     \* the Query record (<<>> before it is built)
    pc,      \* position of the caller: "captured", "ready", or the name of
             \* the operation whose return statement has just been reached
    kwargs,  \* keyword arguments of the call in progress, in the order passed
    ret,     \* value returned by the call in progress
    exc,     \* exception raised by the call in progress ("none" if none)
    calls,   \* collaborator calls made by the call in progress, in order,
             \* each with the argument that matters (the lexer of a
             \* highlight call, the text of a write to sys.stdout)
    assigns  \* number of attribute assignments made on the record so far

vars == <<args, rec, pc, kwargs, ret, exc, calls, assigns>>

----------------------------------------------------------------------------
(* Bounds of the model *)

MaxFrames == 2      \* longest captured stack trace
MaxAssign == 1      \* attribute assignments in one behaviour

----------------------------------------------------------------------------
(* Text helpers: Python str methods used by the module *)

NL == "\n"
SP == " "

IsSpace(u) == u \in {SP, NL, "\t"}

RECURSIVE lstrip(_)
lstrip(s) ==
    IF s = <<>> THEN <<>>
    ELSE IF IsSpace(Head(s)) THEN lstrip(Tail(s)) ELSE s

RECURSIVE rstrip(_)
rstrip(s) ==
    IF s = <<>> THEN <<>>
    ELSE IF IsSpace(s[Len(s)]) THEN rstrip(SubSeq(s, 1, Len(s) - 1)) ELSE s

strip(s) == lstrip(rstrip(s))

RECURSIVE join(_, _)
join(sep, parts) ==
    IF parts = <<>> THEN <<>>
    ELSE IF Len(parts) = 1 THEN parts[1]
    ELSE parts[1] \o sep \o join(sep, Tail(parts))

Digit(d) == <<"0", "1", "2", "3", "4", "5", "6", "7", "8", "9">>[d + 1]

RECURSIVE IntToStr(_)
IntToStr(n) ==
    IF n < 0 THEN <<"-">> \o IntToStr(0 - n)
    ELSE IF n < 10 THEN <<Digit(n)>>
    ELSE IntToStr(n \div 10) \o <<Digit(n % 10)>>

LowerChar(c) ==
    CASE c = "P" -> "p" [] c = "O" -> "o" [] c = "S" -> "s" [] c = "T" -> "t"
      [] c = "G" -> "g" [] c = "R" -> "r" [] c = "E" -> "e" [] c = "Q" -> "q"
      [] c = "L" -> "l" [] c = "M" -> "m" [] c = "Y" -> "y"
      [] OTHER -> c

lower(s) == [i \in 1..Len(s) |-> LowerChar(s[i])]

----------------------------------------------------------------------------
(* Values *)

None == [type |-> "NoneType"]
StrValue(t) == [type |-> "str", value |-> t]

\* One collaborator call: the function called and its argument.
Call(fn, arg) == [fn |-> fn, arg |-> arg]

----------------------------------------------------------------------------
(* Collaborators: stacktrace.py and timedelta.py of this package *)

\* StacktraceLine.null(): the frame used when the stack trace is empty.
StacktraceLineNull == [code |-> <<>>, loc |-> <<>>]

\* StacktraceLine.location(): the frame's file/line identity.
location(frame) == frame.loc

\* str(StackTrace): one line per frame, outermost first.
RECURSIVE StackTraceStr(_)
StackTraceStr(st) ==
    IF st = <<>> THEN <<>>
    ELSE location(st[1]) \o <<SP>> \o st[1].code \o <<NL>> \o StackTraceStr(Tail(st))

\* TimeDelta.humanize(): a short human-readable duration; durations are
\* kept in milliseconds.
humanize(d) ==
    IF d < 1000 THEN IntToStr(d) \o <<"ms">>
    ELSE IntToStr(d \div 1000) \o <<"s">>

----------------------------------------------------------------------------
(* Collaborators: pygments and sqlparse *)

PyKeywords  == {"return", "def", "import"}
SqlKeywords == {"SELECT", "FROM", "WHERE"}
ClauseKeywords == {"FROM", "WHERE"}
PgBuiltins  == {"jsonb"}
Numbers     == {"0", "1", "2", "3", "4", "5", "6", "7", "8", "9"}

\* Token class a lexer gives a unit, as far as TerminalFormatter colours it.
TokenColor(lexer, u) ==
    IF u \in Numbers THEN "number"
    ELSE IF lexer = "Python3Lexer" THEN
        (IF u \in PyKeywords THEN "keyword" ELSE "")
    ELSE IF u \in SqlKeywords THEN "keyword"
    ELSE IF lexer = "PostgresLexer" /\ u \in PgBuiltins THEN "builtin"
    ELSE ""

\* Terminal escape sequences, one unit each.
Esc(color) ==
    CASE color = "number"  -> "ESC[number"
      [] color = "keyword" -> "ESC[keyword"
      [] color = "builtin" -> "ESC[builtin"
EscReset == "ESC[reset"
IsEscape(u) == u \in {Esc("number"), Esc("keyword"), Esc("builtin"), EscReset}

RECURSIVE lstripnl(_)
lstripnl(s) ==
    IF s = <<>> THEN <<>> ELSE IF Head(s) = NL THEN lstripnl(Tail(s)) ELSE s

RECURSIVE rstripnl(_)
rstripnl(s) ==
    IF s = <<>> THEN <<>>
    ELSE IF s[Len(s)] = NL THEN rstripnl(SubSeq(s, 1, Len(s) - 1)) ELSE s

RECURSIVE colorize(_, _)
colorize(lexer, s) ==
    IF s = <<>> THEN <<>>
    ELSE (IF TokenColor(lexer, Head(s)) = ""
          THEN <<Head(s)>>
          ELSE <<Esc(TokenColor(lexer, Head(s))), Head(s), EscReset>>)
         \o colorize(lexer, Tail(s))

\* pygments.highlight(text, lexer, TerminalFormatter()): the lexer drops
\* leading and trailing newlines (stripnl) and ends the text with one
\* newline (ensurenl); the formatter wraps each coloured token in escape
\* sequences and writes names, punctuation and whitespace unchanged.
highlight(text, lexer) ==
    colorize(lexer, rstripnl(lstripnl(text)) \o <<NL>>)

RECURSIVE squeeze(_)
squeeze(s) ==
    IF s = <<>> THEN <<>>
    ELSE IF IsSpace(Head(s)) THEN <<SP>> \o squeeze(lstrip(s))
    ELSE <<Head(s)>> \o squeeze(Tail(s))

RECURSIVE breaklines(_)
breaklines(s) ==
    IF Len(s) < 2 THEN s
    ELSE IF s[1] = SP /\ s[2] \in ClauseKeywords
         THEN <<NL>> \o breaklines(Tail(s))
         ELSE <<s[1]>> \o breaklines(Tail(s))

\* sqlparse.format(sql, reindent=True): surrounding whitespace removed,
\* inner whitespace collapsed, each clause keyword on a line of its own.
sqlparse_format(sql) == breaklines(squeeze(strip(sql)))

----------------------------------------------------------------------------
(* The Query record and its factory *)

FieldNames ==
    {"code", "db", "duration", "idx", "is_select", "location", "params",
     "raw_params", "sql", "sql_parameterized", "stacktrace", "start_time",
     "stop_time", "db_type"}

\* stacktrace[-1]: Python's negative index, IndexError on an empty sequence.
IndexError == [type |-> "IndexError"]
LastItem(st) == IF st = <<>> THEN IndexError ELSE st[Len(st)]

\* Mutant: the outermost frame is taken instead of the innermost.
last_executed_line_first(stacktrace) ==
    IF stacktrace # <<>> THEN stacktrace[1] ELSE StacktraceLineNull

\* Lines 63-65: the frame the record is attributed to.
last_executed_line(stacktrace) ==
    IF stacktrace # <<>> THEN LastItem(stacktrace) ELSE StacktraceLineNull

\* Lines 67-82: the record built from the inputs; an exception name if the
\* frame lookup raised.
create(a) ==
    LET line == last_executed_line(a.stacktrace) IN
    IF line = IndexError THEN IndexError
    ELSE [code              |-> line.code,
          db                |-> a.db,
          duration          |-> a.duration,
          idx               |-> a.idx,
          is_select         |-> a.is_select,
          location          |-> location(line),
          params            |-> a.params,
          raw_params        |-> a.raw_params,
          sql               |-> a.sql,
          sql_parameterized |-> a.sql_parameterized,
          stacktrace        |-> a.stacktrace,
          start_time        |-> a.start_time,
          stop_time         |-> a.stop_time,
          db_type           |-> a.db_type]

----------------------------------------------------------------------------
(* Report options *)

\* The keyword-only parameters of display and display_string, in the order
\* of the signature, and their defaults.
OptionNames ==
    <<"code", "duration", "idx", "location", "stacktrace", "sql", "colored",
      "formatted">>

Defaults ==
    [code |-> TRUE, duration |-> TRUE, idx |-> FALSE, location |-> TRUE,
     stacktrace |-> FALSE, sql |-> TRUE, colored |-> TRUE, formatted |-> TRUE]

Options == [DOMAIN Defaults -> BOOLEAN]

\* Python binds keyword arguments by name: a parameter takes the value passed
\* under its name, wherever it stands in the call, and its default otherwise.
Bind(kw) ==
    [n \in DOMAIN Defaults |->
        IF \E i \in 1..Len(kw) : kw[i][1] = n
        THEN kw[CHOOSE i \in 1..Len(kw) : kw[i][1] = n][2]
        ELSE Defaults[n]]

\* A call that passes every option of o by keyword, in the given order.
Keywords(order, o) == [i \in 1..Len(order) |-> <<order[i], o[order[i]]>>]

\* Lines 98-105: the order in which display forwards its options.
ForwardOrder ==
    <<"code", "duration", "idx", "location", "sql", "stacktrace", "colored",
      "formatted">>

----------------------------------------------------------------------------
(* _enhanced_sql and display_string *)

Postgresql == <<"p", "o", "s", "t", "g", "r", "e", "s", "q", "l">>

\* Mutant: the engine tag is compared without lower().
SelectLexer_exact(db_type) ==
    IF db_type = Postgresql THEN "PostgresLexer" ELSE "SqlLexer"

\* Lines 154-158: the grammar used for the SQL text.
SelectLexer(db_type) ==
    IF lower(db_type) = Postgresql THEN "PostgresLexer" ELSE "SqlLexer"

\* Lines 153-168: _enhanced_sql.  value is the text returned, calls the
\* collaborator calls made, in order.
enhanced_sql(q, formatted, colored) ==
    LET lexer == SelectLexer(q.db_type)
        sql1  == IF formatted THEN sqlparse_format(q.sql) ELSE q.sql
        sql2  == IF colored THEN highlight(sql1, lexer) ELSE sql1
    IN  [value |-> sql2,
         calls |-> (IF formatted THEN <<Call("sqlparse.format", <<"reindent">>)>>
                    ELSE <<>>)
                   \o (IF colored THEN <<Call("highlight", <<lexer>>)>>
                       ELSE <<>>)]

IndexLabel == <<"i", "n", "d", "e", "x", ":", SP>>

\* One entry of the list of sections: its text and the calls that made it.
Section(text, made) == [value |-> text, calls |-> made]

\* Mutant: the index section is appended whatever its flag.
idx_section_always(q, o) ==
    <<Section(IndexLabel \o IntToStr(q.idx), <<>>)>>

\* Lines 124-125
idx_section(q, o) ==
    IF o.idx THEN <<Section(IndexLabel \o IntToStr(q.idx), <<>>)>> ELSE <<>>

\* Lines 127-128
duration_section(q, o) ==
    IF o.duration
    THEN <<Section(humanize(q.duration), <<Call("humanize", <<>>)>>)>>
    ELSE <<>>

\* Lines 130-131
location_section(q, o) ==
    IF o.location THEN <<Section(q.location, <<>>)>> ELSE <<>>

\* Mutant: the code is highlighted whenever colored is set.
code_section_colored_only(q, o) ==
    IF o.code
    THEN <<IF o.colored
           THEN Section(highlight(q.code, "Python3Lexer"),
                        <<Call("highlight", <<"Python3Lexer">>)>>)
           ELSE Section(q.code, <<>>)>>
    ELSE <<>>

\* Lines 133-138
code_section(q, o) ==
    IF o.code
    THEN <<IF o.colored /\ o.formatted
           THEN Section(highlight(q.code, "Python3Lexer"),
                        <<Call("highlight", <<"Python3Lexer">>)>>)
           ELSE Section(q.code, <<>>)>>
    ELSE <<>>

\* Lines 140-141
stacktrace_section(q, o) ==
    IF o.stacktrace
    THEN <<Section(StackTraceStr(q.stacktrace), <<Call("str", <<"stacktrace">>)>>)>>
    ELSE <<>>

\* Mutant: the SQL always goes through _enhanced_sql.
sql_section_always_enhanced(q, o) ==
    IF o.sql
    THEN LET esql == enhanced_sql(q, o.formatted, o.colored) IN
         <<Section(esql.value, <<Call("_enhanced_sql", <<>>)>> \o esql.calls)>>
    ELSE <<>>

\* Lines 143-148
sql_section(q, o) ==
    IF o.sql
    THEN <<IF o.colored
           THEN LET esql == enhanced_sql(q, o.formatted, o.colored) IN
                Section(esql.value, <<Call("_enhanced_sql", <<>>)>> \o esql.calls)
           ELSE Section(q.sql, <<>>)>>
    ELSE <<>>

\* Mutant: the sections are appended in the order display forwards them
\* (sql before stacktrace).
attributes_forward_order(q, o) ==
    idx_section(q, o) \o duration_section(q, o) \o location_section(q, o)
    \o code_section(q, o) \o sql_section(q, o) \o stacktrace_section(q, o)

\* Lines 122-148: the list of sections before stripping, in the order the
\* code appends them.
attributes(q, o) ==
    idx_section(q, o) \o duration_section(q, o) \o location_section(q, o)
    \o code_section(q, o) \o stacktrace_section(q, o) \o sql_section(q, o)

RECURSIVE AllCalls(_)
AllCalls(a) == IF a = <<>> THEN <<>> ELSE Head(a).calls \o AllCalls(Tail(a))

\* Mutant: the joined text is returned without the final rstrip().
display_string_no_rstrip(q, o) ==
    LET a == attributes(q, o)
        stripped == [i \in 1..Len(a) |-> strip(a[i].value)]
    IN  [value |-> join(<<NL, NL>>, stripped),
         calls |-> AllCalls(a)]

\* Lines 150-151: strip every section, join with a blank line, strip the end.
display_string(q, o) ==
    LET a == attributes(q, o)
        stripped == [i \in 1..Len(a) |-> strip(a[i].value)]
    IN  [value |-> rstrip(join(<<NL, NL>>, stripped)),
         calls |-> AllCalls(a)]

\* Mutant: the options are forwarded by position, in the order of lines
\* 98-105, so that sql and stacktrace change places.
display_positional(q, o) ==
    LET fwd == [i \in 1..Len(OptionNames) |-> <<OptionNames[i], o[ForwardOrder[i]]>>]
        r == display_string(q, Bind(fwd))
    IN  [value |-> None,
         calls |-> <<Call("display_string", <<>>)>> \o r.calls
                   \o <<Call("sys.stdout.write", r.value \o <<NL>>)>>]

\* Lines 96-108: display forwards its options by keyword, adds a newline
\* and hands the text to sys.stdout.write; it has no return statement.
display(q, o) ==
    LET r == display_string(q, Bind(Keywords(ForwardOrder, o)))
    IN  [value |-> None,
         calls |-> <<Call("display_string", <<>>)>> \o r.calls
                   \o <<Call("sys.stdout.write", r.value \o <<NL>>)>>]

----------------------------------------------------------------------------
(* Inputs *)

F1 == [code |-> <<"return", SP, "x">>, loc |-> <<"views.py:12">>]
F2 == [code |-> <<SP, SP, "q", ".", "save", "(", ")", NL>>,
       loc  |-> <<"models.py:7">>]
Frames == {F1, F2}

StackTraces == UNION {[1..n -> Frames] : n \in 0..MaxFrames}

Sqls ==
    {<<>>,
     <<SP, "SELECT", SP, SP, "a", SP, "FROM", SP, "t", NL>>,
     <<"SELECT", SP, "x", "::", "jsonb", NL, NL, "FROM", SP, "t">>}

DbTypes ==
    {Postgresql,
     <<"P", "o", "s", "t", "g", "r", "e", "S", "Q", "L">>,
     <<"m", "y", "s", "q", "l">>,
     <<>>}

Idxs == {12}
Durations == {12}

Arguments(sts, sqls, dbtypes) ==
    [db                : {<<"default">>},
     duration          : Durations,
     idx               : Idxs,
     is_select         : {TRUE},
     params            : {<<"[]">>},
     raw_params        : {<<>>},
     sql               : sqls,
     sql_parameterized : {<<"SELECT", SP, "%s">>},
     stacktrace        : sts,
     start_time        : {100},
     stop_time         : {112},
     db_type           : dbtypes]

Inputs == Arguments(StackTraces, Sqls, DbTypes)

KwOrders ==
    {OptionNames,
     [i \in 1..Len(OptionNames) |-> OptionNames[Len(OptionNames) + 1 - i]]}

----------------------------------------------------------------------------
(* Actions *)

InitOver(inputs) ==
    /\ args \in inputs
    /\ rec = None
    /\ pc = "captured"
    /\ kwargs = <<>>
    /\ ret = None
    /\ exc = "none"
    /\ calls = <<>>
    /\ assigns = 0

Init == InitOver(Inputs)

\* Query.create(**args)
Create ==
    /\ pc = "captured"
    /\ LET q == create(args) IN
         IF q = IndexError
         THEN /\ exc' = "IndexError"
              /\ UNCHANGED <<rec, ret>>
         ELSE /\ rec' = q
              /\ ret' = q
              /\ exc' = "none"
    /\ pc' = "create"
    /\ kwargs' = <<>>
    /\ calls' = <<>>
    /\ UNCHANGED <<args, assigns>>

\* query.display_string(...) with every option passed by keyword
DisplayString(order, o) ==
    /\ pc = "ready"
    /\ LET r == display_string(rec, Bind(Keywords(order, o))) IN
         /\ ret' = StrValue(r.value)
         /\ calls' = r.calls
    /\ kwargs' = Keywords(order, o)
    /\ pc' = "display_string"
    /\ exc' = "none"
    /\ UNCHANGED <<args, rec, assigns>>

\* str(query): display_string() with every option at its default
StrCall ==
    /\ pc = "ready"
    /\ LET r == display_string(rec, Bind(<<>>)) IN
         /\ ret' = StrValue(r.value)
         /\ calls' = r.calls
    /\ kwargs' = <<>>
    /\ pc' = "__str__"
    /\ exc' = "none"
    /\ UNCHANGED <<args, rec, assigns>>

\* Mutant: _enhanced_sql stores the enhanced text back into the record.
EnhancedSqlStoring(f, c) ==
    /\ pc = "ready"
    /\ LET r == enhanced_sql(rec, f, c) IN
         /\ ret' = StrValue(r.value)
         /\ calls' = r.calls
         /\ rec' = [rec EXCEPT !.sql = r.value]
    /\ kwargs' = << <<"formatted", f>>, <<"colored", c>> >>
    /\ pc' = "_enhanced_sql"
    /\ exc' = "none"
    /\ UNCHANGED <<args, assigns>>

\* query._enhanced_sql(formatted=f, colored=c)
EnhancedSql(f, c) ==
    /\ pc = "ready"
    /\ LET r == enhanced_sql(rec, f, c) IN
         /\ ret' = StrValue(r.value)
         /\ calls' = r.calls
    /\ kwargs' = << <<"formatted", f>>, <<"colored", c>> >>
    /\ pc' = "_enhanced_sql"
    /\ exc' = "none"
    /\ UNCHANGED <<args, rec, assigns>>

\* query.display(...) with every option passed by keyword
Display(o) ==
    /\ pc = "ready"
    /\ LET r == display(rec, Bind(Keywords(OptionNames, o))) IN
         /\ ret' = r.value
         /\ calls' = r.calls
    /\ kwargs' = Keywords(OptionNames, o)
    /\ pc' = "display"
    /\ exc' = "none"
    /\ UNCHANGED <<args, rec, assigns>>

\* The call returns to the caller: its frame is discarded.
Return ==
    /\ pc \notin {"captured", "ready"}
    /\ exc = "none"
    /\ pc' = "ready"
    /\ kwargs' = <<>>
    /\ ret' = None
    /\ calls' = <<>>
    /\ UNCHANGED <<args, rec, exc, assigns>>

\* Mutant: assigning the stack trace derives code and location again.
SetAttrRederiving(field, value) ==
    /\ pc = "ready"
    /\ assigns < MaxAssign
    /\ rec' = IF field = "stacktrace"
              THEN [rec EXCEPT !.stacktrace = value,
                               !.code = last_executed_line(value).code,
                               !.location = location(last_executed_line(value))]
              ELSE [rec EXCEPT ![field] = value]
    /\ assigns' = assigns + 1
    /\ pc' = "setattr"
    /\ kwargs' = <<>>
    /\ ret' = None
    /\ calls' = <<>>
    /\ exc' = "none"
    /\ UNCHANGED args

\* query.<field> = value: the class is declared with attr.s and is not
\* frozen, so a holder of the record may assign to any field.
SetAttr(field, value) ==
    /\ pc = "ready"
    /\ assigns < MaxAssign
    /\ rec' = [rec EXCEPT ![field] = value]
    /\ assigns' = assigns + 1
    /\ pc' = "setattr"
    /\ kwargs' = <<>>
    /\ ret' = None
    /\ calls' = <<>>
    /\ exc' = "none"
    /\ UNCHANGED args

Next ==
    \/ Create
    \/ \E order \in KwOrders, o \in Options : DisplayString(order, o)
    \/ \E o \in Options : Display(o)
    \/ StrCall
    \/ \E f, c \in BOOLEAN : EnhancedSql(f, c)
    \/ Return

Spec == Init /\ [][Next]_vars

\* Values a holder assigns to the fields.
Assignable ==
    [code              |-> {<<"pass">>},
     db                |-> {<<"replica">>},
     duration          |-> {3000},
     idx               |-> {7},
     is_select         |-> {FALSE},
     location          |-> {<<"shell.py:1">>},
     params            |-> {<<"[2]">>},
     raw_params        |-> {<<2>>},
     sql               |-> {<<"SELECT", SP, "2">>},
     sql_parameterized |-> {<<"SELECT", SP, "?">>},
     stacktrace        |-> {<<F2>>},
     start_time        |-> {0},
     stop_time         |-> {1},
     db_type           |-> {<<"m", "y", "s", "q", "l">>}]

AssignInputs ==
    Arguments({<<F2, F1>>}, {<<"SELECT", SP, "1">>}, {Postgresql})

InitAssign == InitOver(AssignInputs)

NextAssign ==
    \/ Create
    \/ \E field \in FieldNames : \E value \in Assignable[field] :
          SetAttr(field, value)
    \/ \E order \in KwOrders, o \in Options : DisplayString(order, o)
    \/ \E o \in Options : Display(o)
    \/ StrCall
    \/ \E f, c \in BOOLEAN : EnhancedSql(f, c)
    \/ Return

SpecAssign == InitAssign /\ [][NextAssign]_vars

----------------------------------------------------------------------------
(* Vocabulary of the properties *)

\* The value the call in progress passed under keyword n.
Flag(n) == \E i \in 1..Len(kwargs) : kwargs[i] = <<n, TRUE>>

Flags == [n \in DOMAIN Defaults |-> Flag(n)]

\* The six sections in the documented order.
FixedOrder == <<"idx", "duration", "location", "code", "stacktrace", "sql">>

SectionFlags == {FixedOrder[i] : i \in 1..Len(FixedOrder)}

\* The text of one section for the record and the flags passed (empty list
\* when its flag is off).
SectionOf(name) ==
    CASE name = "idx"        -> idx_section(rec, Flags)
      [] name = "duration"   -> duration_section(rec, Flags)
      [] name = "location"   -> location_section(rec, Flags)
      [] name = "code"       -> code_section(rec, Flags)
      [] name = "stacktrace" -> stacktrace_section(rec, Flags)
      [] name = "sql"        -> sql_section(rec, Flags)

\* The stripped text of one section, as a list of none or one.
Part(name) ==
    LET sec == SectionOf(name) IN
    IF sec = <<>> THEN <<>> ELSE <<strip(sec[1].value)>>

RECURSIVE PartsFrom(_)
PartsFrom(i) ==
    IF i > Len(FixedOrder) THEN <<>>
    ELSE Part(FixedOrder[i]) \o PartsFrom(i + 1)

\* The stripped texts of the enabled sections, in the documented order.
Parts == PartsFrom(1)

Separator == <<NL, NL>>

NoTrailingSpace(t) == t = <<>> \/ ~IsSpace(t[Len(t)])
NoLeadingSpace(t) == t = <<>> \/ ~IsSpace(t[1])

CallsTo(fn) == SelectSeq(calls, LAMBDA c : c.fn = fn)

SqlLexers == {<<"SqlLexer">>, <<"PostgresLexer">>}
CodeHighlighted == \E i \in 1..Len(calls) :
    calls[i] = Call("highlight", <<"Python3Lexer">>)
SqlHighlighted == \E i \in 1..Len(calls) :
    calls[i].fn = "highlight" /\ calls[i].arg \in SqlLexers
SqlReindented == CallsTo("sqlparse.format") # <<>>

----------------------------------------------------------------------------
(* C1 *)

\* C1: Query.create never fails; the record it returns has the code and the
\* location of the last frame of the stack trace, and the empty strings of
\* the null frame when the stack trace is empty.
C1_CreateTakesLastFrame ==
    pc = "create" =>
        /\ exc = "none"
        /\ ret = rec
        /\ IF args.stacktrace # <<>>
           THEN /\ rec.code = args.stacktrace[Len(args.stacktrace)].code
                /\ rec.location = args.stacktrace[Len(args.stacktrace)].loc
           ELSE /\ rec.code = <<>>
                /\ rec.location = <<>>

C1_Witness ==
    /\ pc = "create"
    /\ args.stacktrace = <<F1, F2>>
    /\ rec.code = F2.code
    /\ rec.location = F2.loc

----------------------------------------------------------------------------
(* C2 *)

----------------------------------------------------------------------------
(* C3 *)

\* C3: whatever the order in which the flags are passed, display_string
\* returns the enabled sections in the order index, duration, location,
\* code, stacktrace, sql; a section whose flag is off adds nothing.
C3_SectionsInFixedOrder ==
    pc = "display_string" => ret.value = rstrip(join(Separator, Parts))

C3_Witness ==
    /\ pc = "display_string"
    /\ kwargs[1][1] = "formatted"
    /\ \A n \in SectionFlags : Flag(n)
    /\ Len(rec.stacktrace) = 2
    /\ rec.sql # <<>>
    /\ Len(Parts) = 6
    /\ ret.value = rstrip(join(Separator, Parts))

----------------------------------------------------------------------------
(* C4 *)

TwoSections == Cardinality({n \in SectionFlags : Flag(n)}) = 2

\* C4 as stated: with exactly two section flags on, the output is the first
\* section, one blank line (two newline characters), and the second
\* section, and it has no trailing whitespace.
C4_TwoSectionsOneBlankLine ==
    (pc = "display_string" /\ TwoSections) =>
        LET parts == Parts IN
        /\ ret.value = parts[1] \o Separator \o parts[2]
        /\ NoTrailingSpace(parts[1])
        /\ NoLeadingSpace(parts[2])
        /\ NoTrailingSpace(ret.value)

\* C4 amended: with exactly two section flags on, the output never has
\* trailing whitespace; when the second section is not empty after
\* stripping, the output is the first section, exactly two newline
\* characters, and the second section; when the second section is empty
\* after stripping, the final rstrip removes the separator too and the
\* output is the first section alone.
C4_BlankLineUnlessSecondEmpty ==
    (pc = "display_string" /\ TwoSections) =>
        LET parts == Parts IN
        /\ NoTrailingSpace(ret.value)
        /\ NoTrailingSpace(parts[1])
        /\ NoLeadingSpace(parts[2])
        /\ IF parts[2] # <<>>
           THEN ret.value = parts[1] \o Separator \o parts[2]
           ELSE ret.value = parts[1]

C4_Witness ==
    /\ pc = "display_string"
    /\ TwoSections
    /\ Flag("code") /\ Flag("sql")
    /\ Flag("colored") /\ Flag("formatted")
    /\ Parts[1] # <<>> /\ Parts[2] # <<>>
    /\ ret.value = Parts[1] \o Separator \o Parts[2]

----------------------------------------------------------------------------
(* C5 *)

\* The stripped texts of the enabled sections that come before sql.
PartsBeforeSql ==
    Part("idx") \o Part("duration") \o Part("location") \o Part("code")
    \o Part("stacktrace")

\* What the output holds in the place of the sql section: the text after
\* the sections before it and their separator.
SqlPart ==
    LET before == PartsBeforeSql IN
    IF before = <<>> THEN ret.value
    ELSE SubSeq(ret.value,
                Len(join(Separator, before)) + Len(Separator) + 1,
                Len(ret.value))

\* C5 as stated: with colored off and sql on, the sql section of the output
\* is the sql field character for character, and _enhanced_sql is not
\* called.
C5_SqlSectionIsRawField ==
    (pc = "display_string" /\ Flag("sql") /\ ~Flag("colored")) =>
        /\ SqlPart = rec.sql
        /\ CallsTo("_enhanced_sql") = <<>>

\* C5 amended: with colored off and sql on, whatever formatted is, the sql
\* section of the output is the sql field with its leading and trailing
\* whitespace stripped and nothing else changed (no escape sequence, no
\* reindentation), and _enhanced_sql is not called.
C5_SqlSectionIsStrippedField ==
    (pc = "display_string" /\ Flag("sql") /\ ~Flag("colored")) =>
        LET part == SqlPart IN
        /\ part = strip(rec.sql)
        /\ \A i \in 1..Len(part) : ~IsEscape(part[i])
        /\ CallsTo("_enhanced_sql") = <<>>
        /\ ~SqlHighlighted
        /\ ~SqlReindented

C5_Witness ==
    /\ pc = "display_string"
    /\ Flag("sql") /\ ~Flag("colored") /\ Flag("formatted")
    /\ Flag("duration")
    /\ rec.sql # strip(rec.sql)
    /\ SqlPart = strip(rec.sql)
    /\ SqlPart # sqlparse_format(rec.sql)

----------------------------------------------------------------------------
(* C6 *)

\* C6: with the six section flags off, display_string returns the empty
\* string, whatever colored and formatted are.
C6_NoSectionsEmptyString ==
    (pc = "display_string" /\ \A n \in SectionFlags : ~Flag(n)) =>
        ret = StrValue(<<>>)

C6_Witness ==
    /\ pc = "display_string"
    /\ \A n \in SectionFlags : ~Flag(n)
    /\ Flag("colored") /\ Flag("formatted")
    /\ rec.sql # <<>> /\ rec.code # <<>>
    /\ ret = StrValue(<<>>)

----------------------------------------------------------------------------
(* C7 *)

\* C7: display writes to standard output exactly once; the text written is
\* what display_string returns for the same eight option values, followed
\* by one newline, so it ends in exactly one newline; display returns
\* nothing.
C7_DisplayWritesOnce ==
    pc = "display" =>
        LET writes == CallsTo("sys.stdout.write")
            text   == writes[1].arg
        IN  /\ Len(writes) = 1
            /\ Len(CallsTo("display_string")) = 1
            /\ text = display_string(rec, Flags).value \o <<NL>>
            /\ text[Len(text)] = NL
            /\ Len(text) > 1 => text[Len(text) - 1] # NL
            /\ ret = None
            /\ exc = "none"

C7_Witness ==
    /\ pc = "display"
    /\ Flag("sql") /\ ~Flag("stacktrace") /\ Flag("code") /\ ~Flag("colored")
    /\ rec.sql # <<>>
    /\ Len(rec.stacktrace) = 2
    /\ CallsTo("sys.stdout.write")
         = <<Call("sys.stdout.write", display_string(rec, Flags).value \o <<NL>>)>>
    /\ ret = None

----------------------------------------------------------------------------
(* C8 *)

CasePairs ==
    {<<"P", "p">>, <<"O", "o">>, <<"S", "s">>, <<"T", "t">>, <<"G", "g">>,
     <<"R", "r">>, <<"E", "e">>, <<"Q", "q">>, <<"L", "l">>, <<"M", "m">>,
     <<"Y", "y">>}

SameLetter(c, d) == c = d \/ <<c, d>> \in CasePairs \/ <<d, c>> \in CasePairs

EqualIgnoringCase(a, b) ==
    Len(a) = Len(b) /\ \A i \in 1..Len(a) : SameLetter(a[i], b[i])

ExpectedLexer ==
    IF EqualIgnoringCase(rec.db_type, Postgresql)
    THEN <<"PostgresLexer">> ELSE <<"SqlLexer">>

\* C8: _enhanced_sql highlights with the PostgreSQL grammar exactly when
\* db_type equals "postgresql" ignoring case, with the generic SQL grammar
\* for every other value, and raises for none.
C8_GrammarByEngineTag ==
    /\ \A i \in 1..Len(calls) :
          (calls[i].fn = "highlight" /\ calls[i].arg \in SqlLexers) =>
              calls[i].arg = ExpectedLexer
    /\ (pc = "_enhanced_sql" /\ kwargs[2] = <<"colored", TRUE>>) =>
          /\ exc = "none"
          /\ calls[Len(calls)] = Call("highlight", ExpectedLexer)

C8_Witness ==
    /\ pc = "_enhanced_sql"
    /\ kwargs[2] = <<"colored", TRUE>>
    /\ rec.db_type # Postgresql
    /\ EqualIgnoringCase(rec.db_type, Postgresql)
    /\ calls[Len(calls)] = Call("highlight", <<"PostgresLexer">>)
    /\ \E i \in 1..Len(ret.value) : ret.value[i] = Esc("builtin")

----------------------------------------------------------------------------
(* C9 *)

OnlySection(name) == \A n \in SectionFlags : Flag(n) <=> n = name

\* C9: in display_string the code is highlighted exactly when the code
\* section is on and colored and formatted are both set, and is the plain
\* code field otherwise; the SQL is highlighted exactly when the sql section
\* is on and colored is set, and reindented exactly when formatted is set as
\* well; with colored off the output holds no escape sequence.
C9_HighlightingSwitches ==
    pc = "display_string" =>
        /\ CodeHighlighted <=>
              (Flag("code") /\ Flag("colored") /\ Flag("formatted"))
        /\ SqlHighlighted <=> (Flag("sql") /\ Flag("colored"))
        /\ SqlReindented <=>
              (Flag("sql") /\ Flag("colored") /\ Flag("formatted"))
        /\ OnlySection("code") =>
              ret.value = strip(IF Flag("colored") /\ Flag("formatted")
                                THEN highlight(rec.code, "Python3Lexer")
                                ELSE rec.code)
        /\ ~Flag("colored") =>
              \A i \in 1..Len(ret.value) : ~IsEscape(ret.value[i])

C9_Witness ==
    /\ pc = "display_string"
    /\ Flag("code") /\ Flag("sql") /\ Flag("colored") /\ ~Flag("formatted")
    /\ rec.code = F1.code
    /\ rec.sql # <<>>
    /\ ~CodeHighlighted
    /\ SqlHighlighted
    /\ ~SqlReindented

----------------------------------------------------------------------------
(* C10 *)

ReadingCalls == {"display", "display_string", "__str__", "_enhanced_sql"}

====
